---- MODULE Spec2Model ----
(***************************************************************************)
(* LynqX relay: the room/broadcast engine of src/rs.py (HTTP + SSE rooms,  *)
(* the file-progress tracker, the idle reaper, the binary websocket relay) *)
(* and of src/relay_server.py (the TCP line relay).                        *)
(*                                                                         *)
(* Both servers run on one asyncio event loop each: the code between two   *)
(* suspending awaits is one atomic action.  asyncio.Queue.put on an        *)
(* unbounded queue never suspends; WebSocket.send_json, StreamWriter.drain,*)
(* StreamWriter.wait_closed, asyncio.sleep and the yields of the SSE       *)
(* generator do.                                                           *)
(***************************************************************************)
EXTENDS Integers, Sequences, FiniteSets, TLC

(***************************************************************************)
(* Bounds of the model.                                                    *)
(***************************************************************************)
MaxSends == 2        \* calls of /send and /typing explored
MaxCreates == 2      \* calls of /create explored
FileMaxSends == 4    \* calls of /send explored for the file-progress tracker
FileMaxCreates == 1  \* calls of /create explored for the file-progress tracker
FullMaxSends == 2    \* calls of /send explored on a room whose history is full
MaxFrames == 1       \* binary frames the websocket peers send in total
WsMaxSends == 1      \* calls of /send explored next to the websocket relay
WsMaxCreates == 1    \* calls of /create explored next to the websocket relay
MaxLines == 2        \* lines the TCP peers send in total
TimedMaxCreates == 2
ReaperMaxCreates == 2
ReaperMaxSends == 1
MaxTcpCreates == 2   \* 'create' requests on the TCP relay

(***************************************************************************)
(* Program constants.                                                      *)
(***************************************************************************)
MAX_HISTORY == 50
CLEANUP_INTERVAL == 5

(***************************************************************************)
(* Value sets.  uuid4().hex[:6] and random.choices(digits, k=6) draw from  *)
(* a finite alphabet: RoomIds stands for the identifiers they can return.  *)
(***************************************************************************)
RoomIds == {"r1", "r2"}
Queues == {"q1", "q2"}            \* SSE connections, each with its asyncio.Queue
Sockets == {"w1", "w2"}           \* websocket connections of /ws/{room_id}
Peers == {"p1", "p2", "p3", "p4"}       \* TCP connections (their StreamWriters)
Filenames == {"f"}
ChunkLens == {1, 2}               \* raw byte lengths of file chunks
None == "None"
NoSize == -1                      \* current_size = None
ClientIds == Queues \cup {None}   \* client_id values of a Message

VARIABLES
    ROOMS,      \* rs.py ROOMS: room id -> [clients, messages, file_progress]
    queue,      \* contents of each SSE connection's asyncio.Queue
    ssePc,      \* where each SSE connection's stream()/event_generator is
    sseRoom,    \* room_id of the stream() call
    sseIter,    \* what the history loop of event_generator has left to yield
    sseShared,  \* the list that loop iterates is still ROOMS[room_id]["messages"]
    wsPc,       \* where each websocket_endpoint call is
    wsRoom,     \* its room_id
    wsStale,    \* its local `room` is no longer ROOMS[room_id]
    wsAlive,    \* the peer's connection is up
    wsSnap,     \* what is left of broadcast()'s snapshot list(clients)
    wsPayload,  \* the payload broadcast() is sending
    wsFrames,   \* binary frames received so far (bounded by MaxFrames)
    transfers,  \* the last reply of get_file_progress
    resp,       \* the status code of the last HTTP response (0: none yet)
    nsent,      \* number of /send and /typing calls so far
    ncreated,   \* number of /create calls so far
    received,   \* per SSE connection: the events yielded to the client
    wsReceived, \* per websocket: the payloads sent to the peer
    accepted,   \* per room: the messages /send and /typing accepted for it
    joinHist,   \* per SSE connection: the room's history when stream() registered it
    tcpROOMS,   \* relay_server.py ROOMS: room id -> the list object of its writers
    tcpLists,   \* the list objects ever bound in ROOMS, by identity: their contents
    tPc,        \* where each connection's handle_client is
    tRoom,      \* its local room_id
    tSnap,      \* what is left of the snapshot list(ROOMS[room_id]) of its relay loop
    tLine,      \* the line it is relaying
    tPart,      \* its local `participants`: a list object (0: a fresh empty list)
    tAlive,     \* the peer's connection is up
    tReply,     \* the status of the reply written to the peer
    tReceived,  \* per connection: the lines written to it
    nlines,     \* lines read from peers so far
    ntcreated,  \* 'create' requests so far
    slept,      \* seconds of cleanup_rooms' asyncio.sleep(CLEANUP_INTERVAL) gone by
    idle        \* per room: seconds it has been in ROOMS with no clients

rsVars == <<ROOMS, queue, ssePc, sseRoom, sseIter, sseShared, wsPc, wsRoom,
            wsStale, wsAlive, wsSnap, wsPayload, wsFrames, transfers, resp,
            nsent, ncreated, received, wsReceived, accepted, joinHist>>

tcpVars == <<tcpROOMS, tcpLists, tPc, tRoom, tSnap, tLine, tPart, tAlive, tReply,
             tReceived, nlines, ntcreated>>

clockVars == <<slept, idle>>

vars == <<rsVars, tcpVars, clockVars>>

(***************************************************************************)
(* Sequence helpers.                                                       *)
(***************************************************************************)
Range(s) == {s[i] : i \in DOMAIN s}

\* list.remove(x): removes the first occurrence
RECURSIVE Remove(_, _)
Remove(s, x) ==
    IF s = <<>> THEN <<>>
    ELSE IF Head(s) = x THEN Tail(s)
    ELSE <<Head(s)>> \o Remove(Tail(s), x)

\* s[-n:]
LastN(s, n) ==
    IF Len(s) <= n THEN s ELSE SubSeq(s, Len(s) - n + 1, Len(s))

\* dict.get(key)
Get(m, key) == IF key \in DOMAIN m THEN m[key] ELSE None

(***************************************************************************)
(* base64: a chunk's data is a base64 string; only the number of alphabet  *)
(* characters and of '=' padding characters matter to its decoded length.  *)
(***************************************************************************)
B64Encode(rawlen) ==
    LET pad == (3 - (rawlen % 3)) % 3
        total == 4 * ((rawlen + 2) \div 3)
    IN  [chars |-> total - pad, pad |-> pad]

B64Valid(d) == (d.chars + d.pad) % 4 = 0 /\ d.pad <= 2

B64EncodedLenMutant(d) == d.chars + d.pad

\* len(base64.b64decode(data))
B64DecodedLen(d) == 3 * ((d.chars + d.pad) \div 4) - d.pad

\* no line is being relayed
NoLine == [sender |-> None, n |-> 0]

NoData == [chars |-> 0, pad |-> 0]
BadData == [chars |-> 3, pad |-> 0]   \* incorrect padding: b64decode raises

(***************************************************************************)
(* Messages (class Message, rs.py 46-53) as message.dict().                *)
(***************************************************************************)
\* The field n is not in the program: it numbers the requests, so that two
\* publishes of equal content are told apart in mailboxes and histories.
Msg(type, data, filename, client_id) ==
    [type |-> type, data |-> data, filename |-> filename,
     client_id |-> client_id, current_size |-> NoSize, n |-> 0]

ChatSenders == {"q1", None}
ChatInputs ==
    {Msg("message", NoData, None, c) : c \in ChatSenders}
    \cup {Msg("typing", NoData, None, "q1"), Msg("client_count", NoData, None, None)}

TypingInputs == {Msg("typing", NoData, None, c) : c \in ChatSenders}

FileSenders == {"q1", "q2"}
FileInputs ==
    {Msg(t, NoData, f, c) : t \in {"file", "file-end", "file-cancel"},
                            f \in Filenames, c \in FileSenders}
    \cup {Msg("file-chunk", d, f, c) : d \in {B64Encode(n) : n \in ChunkLens} \cup {BadData},
                                       f \in Filenames, c \in FileSenders}

client_count_msg(count) == [type |-> "client_count", count |-> count]

\* {} as a dict
EmptyDict == [k \in {} |-> None]

\* the dict d without key k
DictPop(d, k) == [x \in DOMAIN d \ {k} |-> d[x]]

\* the dict d with d[k] = v
DictSet(d, k, v) == [x \in DOMAIN d \cup {k} |-> IF x = k THEN v ELSE d[x]]

NewRoom == [clients |-> <<>>, messages |-> <<>>, file_progress |-> EmptyDict]

IsQueue(h) == h \in Queues

(***************************************************************************)
(* `for q in list(clients): await q.put(msg)`: puts to every queue of the  *)
(* snapshot in order; a websocket in the list has no put(), the            *)
(* AttributeError ends the loop (and the handler) there.                   *)
(***************************************************************************)
RECURSIVE PutAll(_, _, _)
PutAll(qs, clients, msg) ==
    IF clients = <<>> \/ ~IsQueue(Head(clients)) THEN qs
    ELSE PutAll([qs EXCEPT ![Head(clients)] = Append(@, msg)], Tail(clients), msg)

PutAllRaises(clients) == \E i \in DOMAIN clients : ~IsQueue(clients[i])

(***************************************************************************)
(* Initial state: no rooms, no connections.                                *)
(***************************************************************************)
Init ==
    /\ ROOMS = EmptyDict
    /\ queue = [q \in Queues |-> <<>>]
    /\ ssePc = [q \in Queues |-> "idle"]
    /\ sseRoom = [q \in Queues |-> None]
    /\ sseIter = [q \in Queues |-> <<>>]
    /\ sseShared = [q \in Queues |-> FALSE]
    /\ wsPc = [w \in Sockets |-> "idle"]
    /\ wsRoom = [w \in Sockets |-> None]
    /\ wsStale = [w \in Sockets |-> FALSE]
    /\ wsAlive = [w \in Sockets |-> FALSE]
    /\ wsSnap = [w \in Sockets |-> <<>>]
    /\ wsPayload = [w \in Sockets |-> None]
    /\ wsFrames = 0
    /\ resp = 0
    /\ transfers = [client_id |-> None, ongoing_transfers |-> EmptyDict]
    /\ nsent = 0
    /\ ncreated = 0
    /\ received = [q \in Queues |-> <<>>]
    /\ wsReceived = [w \in Sockets |-> <<>>]
    /\ accepted = [r \in RoomIds |-> <<>>]
    /\ joinHist = [q \in Queues |-> <<>>]
    /\ tcpROOMS = EmptyDict
    /\ tcpLists = <<>>
    /\ tPc = [p \in Peers |-> "idle"]
    /\ tRoom = [p \in Peers |-> None]
    /\ tSnap = [p \in Peers |-> <<>>]
    /\ tLine = [p \in Peers |-> NoLine]
    /\ tPart = [p \in Peers |-> 0]
    /\ tAlive = [p \in Peers |-> FALSE]
    /\ tReply = [p \in Peers |-> "none"]
    /\ tReceived = [p \in Peers |-> <<>>]
    /\ nlines = 0
    /\ ntcreated = 0
    /\ slept = 0
    /\ idle = [r \in RoomIds |-> 0]

(***************************************************************************)
(* Time. Only the reaper's sleep takes time; a handler's step takes none.  *)
(* idle[r] counts the seconds for which room r has been in ROOMS with no   *)
(* clients; a step that creates r, gives it a client or deletes it resets  *)
(* the count.                                                              *)
(***************************************************************************)
Vacant(rooms, r) == r \in DOMAIN rooms /\ rooms[r].clients = <<>>

IdleAfter ==
    [r \in RoomIds |->
        IF Vacant(ROOMS, r) /\ Vacant(ROOMS', r)
        THEN idle[r] ELSE 0]

Aged == slept' = slept /\ idle' = IdleAfter

(***************************************************************************)
(* rs.py: POST /create                                                     *)
(***************************************************************************)
\* the identifiers uuid.uuid4().hex[:6] can return, given the registry
FreshIdsMutant(rooms) == RoomIds \ DOMAIN rooms

NewRoomIds(rooms) == RoomIds

\* Every reference to the dict (or its lists) that ROOMS[rid] held goes stale
\* when ROOMS[rid] is rebound or deleted.
Unshare(rids) == [q \in Queues |-> sseShared[q] /\ sseRoom[q] \notin rids]
Stale(rids) == [w \in Sockets |-> wsStale[w] \/ (wsPc[w] # "idle" /\ wsRoom[w] \in rids)]

create_room(rid) ==
    /\ ncreated' = ncreated + 1
    /\ ROOMS' = DictSet(ROOMS, rid, NewRoom)
    /\ sseShared' = Unshare({rid})
    /\ wsStale' = Stale({rid})
    /\ accepted' = [accepted EXCEPT ![rid] = <<>>]
    /\ resp' = 200
    /\ UNCHANGED <<tcpVars, transfers, queue, ssePc, sseRoom, sseIter, wsPc, wsRoom, wsAlive, wsSnap,
                   wsPayload, wsFrames, nsent, received, wsReceived, joinHist>>
    /\ slept' = slept
    /\ idle' = [IdleAfter EXCEPT ![rid] = 0]

(***************************************************************************)
(* rs.py: POST /rooms/{room_id}/send                                       *)
(***************************************************************************)
TrackAssignMutant(fp, message) ==
    IF message.type = "file"
    THEN DictSet(fp, message.filename,
                 [current_size |-> 0, sender_id |-> message.client_id])
    ELSE IF message.type = "file-chunk"
    THEN IF message.filename \in DOMAIN fp
         THEN [fp EXCEPT ![message.filename].current_size = B64DecodedLen(message.data)]
         ELSE fp
    ELSE IF message.type \in {"file-end", "file-cancel"}
    THEN DictPop(fp, message.filename)
    ELSE fp

\* lines 100-112: the tracker update
TrackProgress(fp, message) ==
    IF message.type = "file"
    THEN DictSet(fp, message.filename,
                 [current_size |-> 0, sender_id |-> message.client_id])
    ELSE IF message.type = "file-chunk"
    THEN IF message.filename \in DOMAIN fp
         THEN [fp EXCEPT ![message.filename].current_size =
                              @ + B64DecodedLen(message.data)]
         ELSE fp
    ELSE IF message.type \in {"file-end", "file-cancel"}
    THEN DictPop(fp, message.filename)
    ELSE fp

\* line 110: msg_dict["current_size"], read from the updated tracker
Annotate(fp1, message) ==
    IF message.type = "file-chunk" /\ message.filename \in DOMAIN fp1
    THEN [message EXCEPT !.current_size = fp1[message.filename].current_size]
    ELSE message

StoredAlwaysMutant(type) == TRUE

\* line 115
Stored(type) == type # "typing"

TrimFirstMutant(msgs) == IF Len(msgs) <= MAX_HISTORY THEN msgs ELSE SubSeq(msgs, 1, MAX_HISTORY)

\* line 117
Trim(msgs) == LastN(msgs, MAX_HISTORY)

\* lines 115-117
StoreMessage(msgs, msg_dict) ==
    IF Stored(msg_dict.type) THEN Trim(Append(msgs, msg_dict)) ELSE msgs

\* list.append(msg_dict) at line 116 is seen by a history loop still iterating
\* that list object; line 117 then rebinds ROOMS[rid]["messages"] to a new list.
Replaying(rid) == {q \in Queues : ssePc[q] = "replay" /\ sseRoom[q] = rid /\ sseShared[q]}

send_message(rid, message) ==
    /\ nsent' = nsent + 1
    /\ IF rid \notin DOMAIN ROOMS
       THEN /\ resp' = 404
            /\ UNCHANGED <<ROOMS, queue, sseIter, sseShared, accepted>>
       ELSE IF message.type = "file-chunk" /\ ~B64Valid(message.data)
       THEN /\ resp' = 500
            /\ UNCHANGED <<ROOMS, queue, sseIter, sseShared, accepted>>
       ELSE LET room == ROOMS[rid]
                fp1 == TrackProgress(room.file_progress, message)
                msg_dict == [Annotate(fp1, message) EXCEPT !.n = nsent + 1]
                stored == Stored(message.type)
            IN  /\ ROOMS' = [ROOMS EXCEPT ![rid] =
                                [clients |-> room.clients,
                                 messages |-> StoreMessage(room.messages, msg_dict),
                                 file_progress |-> fp1]]
                /\ queue' = PutAll(queue, room.clients, msg_dict)
                /\ sseIter' = [q \in Queues |->
                                 IF stored /\ q \in Replaying(rid)
                                 THEN Append(sseIter[q], msg_dict) ELSE sseIter[q]]
                /\ sseShared' = IF stored THEN Unshare({rid}) ELSE sseShared
                /\ accepted' = [accepted EXCEPT ![rid] = Append(@, msg_dict)]
                /\ resp' = IF PutAllRaises(room.clients) THEN 500 ELSE 200
    /\ UNCHANGED <<tcpVars, transfers, ssePc, sseRoom, wsPc, wsRoom, wsStale, wsAlive, wsSnap, wsPayload,
                   wsFrames, ncreated, received, wsReceived, joinHist>>
    /\ Aged

(***************************************************************************)
(* rs.py: POST /rooms/{room_id}/typing                                     *)
(***************************************************************************)
send_typing(rid, message) ==
    /\ nsent' = nsent + 1
    /\ IF rid \notin DOMAIN ROOMS
       THEN /\ resp' = 404
            /\ UNCHANGED <<queue, accepted>>
       ELSE LET msg_dict == [message EXCEPT !.type = "typing", !.n = nsent + 1]
            IN  /\ queue' = PutAll(queue, ROOMS[rid].clients, msg_dict)
                /\ accepted' = [accepted EXCEPT ![rid] = Append(@, msg_dict)]
                /\ resp' = IF PutAllRaises(ROOMS[rid].clients) THEN 500 ELSE 200
    /\ UNCHANGED <<tcpVars, transfers, ROOMS, ssePc, sseRoom, sseIter, sseShared, wsPc, wsRoom, wsStale,
                   wsAlive, wsSnap, wsPayload, wsFrames, ncreated, received,
                   wsReceived, joinHist>>
    /\ Aged

(***************************************************************************)
(* rs.py: GET /rooms/{room_id}/get_file_progress                           *)
(***************************************************************************)
OngoingAllMutant(fp, client_id) == [f \in DOMAIN fp |-> fp[f].current_size]

\* lines 175-178
OngoingTransfers(fp, client_id) ==
    [f \in {g \in DOMAIN fp : fp[g].sender_id = client_id} |-> fp[f].current_size]

get_file_progress(rid, client_id) ==
    /\ IF rid \notin DOMAIN ROOMS
       THEN /\ resp' = 404
            /\ UNCHANGED transfers
       ELSE /\ resp' = 200
            /\ transfers' = [client_id |-> client_id,
                             ongoing_transfers |->
                                 OngoingTransfers(ROOMS[rid].file_progress, client_id)]
    /\ UNCHANGED <<tcpVars, ROOMS, queue, ssePc, sseRoom, sseIter, sseShared, wsPc, wsRoom,
                   wsStale, wsAlive, wsSnap, wsPayload, wsFrames, nsent, ncreated,
                   received, wsReceived, accepted, joinHist>>
    /\ Aged

(***************************************************************************)
(* rs.py: GET /rooms/{room_id}/stream, and its event_generator             *)
(***************************************************************************)
\* lines 133-142: up to the return of the StreamingResponse
stream(rid, q) ==
    /\ ssePc[q] = "idle"
    /\ IF rid \notin DOMAIN ROOMS
       THEN /\ resp' = 404
            /\ UNCHANGED <<ROOMS, queue, ssePc, sseRoom, joinHist>>
       ELSE LET clients == Append(ROOMS[rid].clients, q)
            IN  /\ sseRoom' = [sseRoom EXCEPT ![q] = rid]
                /\ ROOMS' = [ROOMS EXCEPT ![rid].clients = clients]
                /\ queue' = PutAll(queue, clients, client_count_msg(Len(clients)))
                /\ joinHist' = [joinHist EXCEPT ![q] = ROOMS[rid].messages]
                /\ IF PutAllRaises(clients)
                   THEN \* the handler raised: no response, the queue stays registered
                        /\ ssePc' = [ssePc EXCEPT ![q] = "failed"]
                        /\ resp' = 500
                   ELSE /\ ssePc' = [ssePc EXCEPT ![q] = "joined"]
                        /\ resp' = 200
    /\ UNCHANGED <<tcpVars, transfers, sseIter, sseShared, wsPc, wsRoom, wsStale, wsAlive, wsSnap, wsPayload,
                   wsFrames, nsent, ncreated, received, wsReceived, accepted>>
    /\ Aged

\* line 147: the history loop takes its iterator over the room's list
gen_start(q) ==
    /\ ssePc[q] = "joined"
    /\ IF sseRoom[q] \in DOMAIN ROOMS
       THEN /\ ssePc' = [ssePc EXCEPT ![q] = "replay"]
            /\ sseIter' = [sseIter EXCEPT ![q] = ROOMS[sseRoom[q]].messages]
            /\ sseShared' = [sseShared EXCEPT ![q] = TRUE]
       ELSE \* KeyError at line 147, and again at line 162 in the finally block
            /\ ssePc' = [ssePc EXCEPT ![q] = "done"]
            /\ UNCHANGED <<sseIter, sseShared>>
    /\ queue' = [queue EXCEPT ![q] = IF ssePc'[q] = "done" THEN <<>> ELSE @]
    /\ UNCHANGED <<tcpVars, transfers, ROOMS, sseRoom, wsPc, wsRoom, wsStale, wsAlive, wsSnap,
                   wsPayload, wsFrames, resp, nsent, ncreated, received, wsReceived,
                   accepted, joinHist>>
    /\ Aged

\* lines 147-150: one turn of the history loop
gen_replay(q) ==
    /\ ssePc[q] = "replay"
    /\ IF sseIter[q] = <<>>
       THEN /\ ssePc' = [ssePc EXCEPT ![q] = "drain"]
            /\ sseShared' = [sseShared EXCEPT ![q] = FALSE]
            /\ UNCHANGED <<sseIter, received>>
       ELSE /\ received' = [received EXCEPT ![q] = Append(@, Head(sseIter[q]))]
            /\ sseIter' = [sseIter EXCEPT ![q] = Tail(@)]
            /\ UNCHANGED <<ssePc, sseShared>>
    /\ UNCHANGED <<tcpVars, transfers, ROOMS, queue, sseRoom, wsPc, wsRoom, wsStale, wsAlive, wsSnap,
                   wsPayload, wsFrames, resp, nsent, ncreated, wsReceived, accepted,
                   joinHist>>
    /\ Aged

EchoAllMutant(msg, client_id) == FALSE

\* line 155; client_id is the stream's query parameter, here the connection's name
SkipEcho(msg, client_id) == Get(msg, "client_id") = client_id

\* lines 152-158: one turn of the live loop
gen_drain(q) ==
    /\ ssePc[q] = "drain"
    /\ queue[q] # <<>>
    /\ queue' = [queue EXCEPT ![q] = Tail(@)]
    /\ received' = [received EXCEPT ![q] =
                       IF SkipEcho(Head(queue[q]), q) THEN @ ELSE Append(@, Head(queue[q]))]
    /\ UNCHANGED <<tcpVars, transfers, ROOMS, ssePc, sseRoom, sseIter, sseShared, wsPc, wsRoom, wsStale,
                   wsAlive, wsSnap, wsPayload, wsFrames, resp, nsent, ncreated,
                   wsReceived, accepted, joinHist>>
    /\ Aged

Dropped(f, q) == [f EXCEPT ![q] = <<>>]

\* lines 159-167: the client goes away, the generator is cancelled at its yield
\* or await, and the finally block runs
gen_cancel(q) ==
    /\ ssePc[q] \in {"replay", "drain"}
    /\ ssePc' = [ssePc EXCEPT ![q] = "done"]
    /\ sseShared' = [sseShared EXCEPT ![q] = FALSE]
    /\ IF sseRoom[q] \in DOMAIN ROOMS /\ q \in Range(ROOMS[sseRoom[q]].clients)
       THEN LET clients == Remove(ROOMS[sseRoom[q]].clients, q)
            IN  /\ ROOMS' = [ROOMS EXCEPT ![sseRoom[q]].clients = clients]
                /\ queue' = PutAll(Dropped(queue, q), clients,
                                   client_count_msg(Len(clients)))
       ELSE \* KeyError or ValueError at line 162
            /\ queue' = Dropped(queue, q)
            /\ UNCHANGED ROOMS
    \* the connection is over: its queue and what it was sent are of no use any more
    /\ sseIter' = Dropped(sseIter, q)
    /\ received' = Dropped(received, q)
    /\ joinHist' = Dropped(joinHist, q)
    /\ UNCHANGED <<tcpVars, transfers, resp, sseRoom, wsPc, wsRoom, wsStale, wsAlive, wsSnap,
                   wsPayload, wsFrames, nsent, ncreated, wsReceived, accepted>>
    /\ Aged

(***************************************************************************)
(* rs.py: cleanup_rooms, one sweep (lines 203-206)                         *)
(***************************************************************************)
DeleteAllMutant(rooms) == DOMAIN rooms

DeleteNoneMutant(rooms) == {}

\* line 203
ToDelete(rooms) == {r \in DOMAIN rooms : rooms[r].clients = <<>>}

\* lines 203-206: one sweep
Sweep ==
    LET to_delete == ToDelete(ROOMS)
    IN  /\ ROOMS' = [r \in DOMAIN ROOMS \ to_delete |-> ROOMS[r]]
        /\ accepted' = [r \in RoomIds |-> IF r \in to_delete THEN <<>> ELSE accepted[r]]
        /\ sseShared' = Unshare(to_delete)
        /\ wsStale' = Stale(to_delete)
        /\ UNCHANGED resp
        /\ UNCHANGED <<tcpVars, transfers, queue, ssePc, sseRoom, sseIter, wsPc, wsRoom, wsAlive, wsSnap,
                       wsPayload, wsFrames, nsent, ncreated, received, wsReceived,
                       joinHist>>

\* a sweep, whenever the reaper is scheduled (its sleep is left out)
cleanup_rooms == Sweep /\ Aged

\* line 202: one second of `await asyncio.sleep(CLEANUP_INTERVAL)` goes by
cleanup_sleep ==
    /\ slept < CLEANUP_INTERVAL
    /\ slept' = slept + 1
    /\ idle' = [r \in RoomIds |->
                  IF Vacant(ROOMS, r)
                  THEN (IF idle[r] < CLEANUP_INTERVAL THEN idle[r] + 1 ELSE idle[r])
                  ELSE 0]
    /\ UNCHANGED <<rsVars, tcpVars>>

\* lines 202-206: the sleep is over, the sweep runs and the next sleep begins
cleanup_wake ==
    /\ slept = CLEANUP_INTERVAL
    /\ Sweep
    /\ slept' = 0
    /\ idle' = IdleAfter

NextSse ==
    \/ \E rid \in NewRoomIds(ROOMS) : ncreated < MaxCreates /\ create_room(rid)
    \/ \E rid \in RoomIds, m \in ChatInputs : nsent < MaxSends /\ send_message(rid, m)
    \/ \E rid \in RoomIds, m \in TypingInputs : nsent < MaxSends /\ send_typing(rid, m)
    \/ \E rid \in RoomIds, q \in Queues : stream(rid, q)
    \/ \E q \in Queues : gen_start(q)
    \/ \E q \in Queues : gen_replay(q)
    \/ \E q \in Queues : gen_drain(q)
    \/ \E q \in Queues : gen_cancel(q)
    \/ cleanup_rooms

Spec == Init /\ [][NextSse]_vars

\* The file-progress tracker: file messages through /send to one room, relayed
\* to the mailbox of one SSE connection and queried by get_file_progress.
FileRooms == {"r1"}

NextFiles ==
    \/ \E rid \in NewRoomIds(ROOMS) : ncreated < FileMaxCreates /\ create_room(rid)
    \/ \E rid \in FileRooms, m \in FileInputs : nsent < FileMaxSends /\ send_message(rid, m)
    \/ \E rid \in FileRooms, c \in FileSenders : get_file_progress(rid, c)
    \/ \E rid \in FileRooms : stream(rid, "q2")
    \/ cleanup_rooms

SpecFiles == Init /\ [][NextFiles]_vars


(***************************************************************************)
(* rs.py: the websocket endpoint /ws/{room_id} and broadcast()             *)
(***************************************************************************)
Frames == {<<104, 105>>}          \* the binary frames a peer may send (bytes)

\* bytes.decode("latin1"): byte b becomes the code point b
Latin1Decode(data) == [i \in DOMAIN data |-> data[i]]

\* lines 241-242.  The field sender is not in the program: it records whose
\* websocket_endpoint call made the payload.
Payload(w, event, data) ==
    [meta |-> [event |-> event],
     data |-> IF data # <<>> THEN Latin1Decode(data) ELSE <<>>,
     sender |-> w]

\* where websocket_endpoint goes on when broadcast() returns
AfterBroadcast(event) == IF event = "file-end" THEN "done" ELSE "recv"

\* broadcast() up to its first send: line 243 snapshots the clients, or raises
\* KeyError when the room is gone (the exception ends websocket_endpoint)
BeginBroadcast(w, rooms, event, data) ==
    LET rid == wsRoom'[w]
        snap == IF rid \in DOMAIN rooms THEN rooms[rid].clients ELSE <<>>
        pc == IF rid \notin DOMAIN rooms THEN "done"
              ELSE IF snap = <<>> THEN AfterBroadcast(event) ELSE "bcast"
    IN  /\ wsPc' = [wsPc EXCEPT ![w] = pc]
        /\ wsSnap' = [wsSnap EXCEPT ![w] = IF pc = "bcast" THEN snap ELSE <<>>]
        /\ wsPayload' = [wsPayload EXCEPT ![w] =
                            IF pc = "bcast" THEN Payload(w, event, data) ELSE None]
        /\ wsReceived' = [wsReceived EXCEPT ![w] = IF pc = "done" THEN <<>> ELSE @]

\* get_current_user: the token is verified outside the core
ws_refuse(w) ==
    /\ wsPc[w] = "idle"
    /\ resp' = 401
    /\ UNCHANGED <<tcpVars, ROOMS, queue, ssePc, sseRoom, sseIter, sseShared, wsPc, wsRoom,
                   wsStale, wsAlive, wsSnap, wsPayload, wsFrames, transfers, nsent,
                   ncreated, received, wsReceived, accepted, joinHist>>
    /\ Aged

SetDefaultStrictMutant(rooms, rid) == rooms

\* ROOMS.setdefault(room_id, {...}) at line 221
SetDefault(rooms, rid) ==
    IF rid \in DOMAIN rooms THEN rooms ELSE DictSet(rooms, rid, NewRoom)

\* lines 220-225, up to the first send of the "file-start" broadcast
ws_connect(w, rid) ==
    /\ wsPc[w] = "idle"
    /\ rid \in DOMAIN SetDefault(ROOMS, rid)
    /\ LET rooms == [SetDefault(ROOMS, rid) EXCEPT ![rid].clients = Append(@, w)]
       IN  /\ ROOMS' = rooms
           /\ wsRoom' = [wsRoom EXCEPT ![w] = rid]
           /\ wsAlive' = [wsAlive EXCEPT ![w] = TRUE]
           /\ BeginBroadcast(w, rooms, "file-start", <<>>)
    /\ UNCHANGED <<tcpVars, queue, ssePc, sseRoom, sseIter, sseShared, wsStale, wsFrames,
                   transfers, resp, nsent, ncreated, received, accepted, joinHist>>
    /\ Aged

\* ws.send_json(payload) succeeds on an open websocket only: an asyncio.Queue
\* has no send_json, a closed websocket raises
SendFails(h) == ~(h \in Sockets /\ wsAlive[h])

SendSkipsSenderMutant(w, h) == h # w

\* broadcast() sends to every client of the snapshot (line 243)
SendsTo(w, h) == TRUE

\* lines 243-247: one turn of broadcast()'s loop
ws_send(w) ==
    /\ wsPc[w] = "bcast"
    /\ LET h == Head(wsSnap[w])
           rest == Tail(wsSnap[w])
           rid == wsRoom[w]
           event == wsPayload[w].meta.event
           fails == SendsTo(w, h) /\ SendFails(h)
           \* line 247 raises KeyError or ValueError out of the except block
           raises == fails /\ (rid \notin DOMAIN ROOMS \/ h \notin Range(ROOMS[rid].clients))
           pc == IF raises THEN "done"
                 ELSE IF rest = <<>> THEN AfterBroadcast(event) ELSE "bcast"
       IN  /\ ROOMS' = IF fails /\ ~raises
                       THEN [ROOMS EXCEPT ![rid].clients = Remove(@, h)]
                       ELSE ROOMS
           /\ wsReceived' = [x \in Sockets |->
                               IF x = w /\ pc = "done" THEN <<>>
                               ELSE IF x = h /\ SendsTo(w, h) /\ ~fails
                               THEN Append(wsReceived[x], wsPayload[w])
                               ELSE wsReceived[x]]
           /\ wsPc' = [wsPc EXCEPT ![w] = pc]
           /\ wsSnap' = [wsSnap EXCEPT ![w] = IF pc = "bcast" THEN rest ELSE <<>>]
           /\ wsPayload' = [wsPayload EXCEPT ![w] = IF pc = "bcast" THEN @ ELSE None]
    /\ UNCHANGED <<tcpVars, queue, ssePc, sseRoom, sseIter, sseShared, wsRoom, wsStale, wsAlive,
                   wsFrames, transfers, resp, nsent, ncreated, received, accepted,
                   joinHist>>
    /\ Aged

\* lines 227-229: a binary frame arrives
ws_receive(w, chunk) ==
    /\ wsPc[w] = "recv"
    /\ wsAlive[w]
    /\ wsFrames < MaxFrames
    /\ wsFrames' = wsFrames + 1
    /\ UNCHANGED wsRoom
    /\ BeginBroadcast(w, ROOMS, "file-chunk", chunk)
    /\ UNCHANGED <<tcpVars, ROOMS, queue, ssePc, sseRoom, sseIter, sseShared, wsStale, wsAlive,
                   transfers, resp, nsent, ncreated, received, accepted, joinHist>>
    /\ Aged

\* lines 230-231: the peer closes, iter_bytes() ends, "file-end" is broadcast
ws_close(w) ==
    /\ wsPc[w] = "recv"
    /\ wsAlive' = [wsAlive EXCEPT ![w] = FALSE]
    /\ UNCHANGED wsRoom
    /\ BeginBroadcast(w, ROOMS, "file-end", <<>>)
    /\ UNCHANGED <<tcpVars, ROOMS, queue, ssePc, sseRoom, sseIter, sseShared, wsStale, wsFrames,
                   transfers, resp, nsent, ncreated, received, accepted, joinHist>>
    /\ Aged

\* lines 232-233: WebSocketDisconnect reaches the handler, which removes the
\* websocket from the clients of its local `room`
ws_disconnect(w) ==
    /\ wsPc[w] = "recv"
    /\ wsAlive' = [wsAlive EXCEPT ![w] = FALSE]
    /\ wsPc' = [wsPc EXCEPT ![w] = "done"]
    /\ wsReceived' = [wsReceived EXCEPT ![w] = <<>>]
    /\ ROOMS' = IF ~wsStale[w] /\ wsRoom[w] \in DOMAIN ROOMS
                THEN [ROOMS EXCEPT ![wsRoom[w]].clients = Remove(@, w)]
                ELSE ROOMS
    /\ UNCHANGED <<tcpVars, queue, ssePc, sseRoom, sseIter, sseShared, wsRoom, wsStale, wsSnap,
                   wsPayload, wsFrames, transfers, resp, nsent, ncreated, received,
                   accepted, joinHist>>
    /\ Aged

NextWs ==
    \/ \E w \in Sockets : ws_refuse(w)
    \/ \E w \in Sockets, rid \in RoomIds : ws_connect(w, rid)
    \/ \E w \in Sockets : ws_send(w)
    \/ \E w \in Sockets, chunk \in Frames : ws_receive(w, chunk)
    \/ \E w \in Sockets : ws_close(w)
    \/ \E w \in Sockets : ws_disconnect(w)

\* A room whose history is at its capacity: the state after POST /create has
\* returned "r1" and MAX_HISTORY chat messages have been sent to it.
ChatMsg == Msg("message", NoData, None, None)

FullHistory == [i \in 1..MAX_HISTORY |-> [ChatMsg EXCEPT !.n = i]]

InitFull ==
    /\ ROOMS = [r \in {"r1"} |-> [NewRoom EXCEPT !.messages = FullHistory]]
    /\ accepted = [r \in RoomIds |-> IF r = "r1" THEN FullHistory ELSE <<>>]
    /\ nsent = MAX_HISTORY
    /\ ncreated = 1
    /\ resp = 200
    /\ queue = [q \in Queues |-> <<>>]
    /\ ssePc = [q \in Queues |-> "idle"]
    /\ sseRoom = [q \in Queues |-> None]
    /\ sseIter = [q \in Queues |-> <<>>]
    /\ sseShared = [q \in Queues |-> FALSE]
    /\ received = [q \in Queues |-> <<>>]
    /\ joinHist = [q \in Queues |-> <<>>]
    /\ transfers = [client_id |-> None, ongoing_transfers |-> EmptyDict]
    /\ wsPc = [w \in Sockets |-> "idle"]
    /\ wsRoom = [w \in Sockets |-> None]
    /\ wsStale = [w \in Sockets |-> FALSE]
    /\ wsAlive = [w \in Sockets |-> FALSE]
    /\ wsSnap = [w \in Sockets |-> <<>>]
    /\ wsPayload = [w \in Sockets |-> None]
    /\ wsFrames = 0
    /\ wsReceived = [w \in Sockets |-> <<>>]
    /\ tcpROOMS = EmptyDict
    /\ tcpLists = <<>>
    /\ tPc = [p \in Peers |-> "idle"]
    /\ tRoom = [p \in Peers |-> None]
    /\ tSnap = [p \in Peers |-> <<>>]
    /\ tLine = [p \in Peers |-> NoLine]
    /\ tPart = [p \in Peers |-> 0]
    /\ tAlive = [p \in Peers |-> FALSE]
    /\ tReply = [p \in Peers |-> "none"]
    /\ tReceived = [p \in Peers |-> <<>>]
    /\ nlines = 0
    /\ ntcreated = 0
    /\ slept = 0
    /\ idle = [r \in RoomIds |-> 0]

NextFull ==
    \/ nsent < MAX_HISTORY + FullMaxSends /\ send_message("r1", ChatMsg)
    \/ nsent < MAX_HISTORY + FullMaxSends /\ send_typing("r1", ChatMsg)
    \/ stream("r1", "q1")
    \/ gen_start("q1")
    \/ gen_replay("q1")
    \/ gen_drain("q1")
    \/ gen_cancel("q1")

SpecFull == InitFull /\ [][NextFull]_vars

\* The websocket relay next to one SSE connection and the HTTP endpoints.
NextWsRoom ==
    \/ NextWs
    \/ \E rid \in NewRoomIds(ROOMS) : ncreated < WsMaxCreates /\ create_room(rid)
    \/ \E rid \in RoomIds : nsent < WsMaxSends /\ send_message(rid, ChatMsg)
    \/ \E rid \in RoomIds : stream(rid, "q1")
    \/ gen_start("q1")
    \/ gen_replay("q1")
    \/ gen_drain("q1")
    \/ gen_cancel("q1")
    \/ cleanup_rooms

SpecWs == Init /\ [][NextWsRoom]_vars


(***************************************************************************)
(* relay_server.py: handle_client                                          *)
(*                                                                         *)
(* ROOMS maps a room id to a list object; handle_client keeps a reference  *)
(* to one (`participants`) across an await, so list objects are modelled   *)
(* by identity: tcpLists[i] is the content of the i-th list ever bound.    *)
(***************************************************************************)
TcpFreshIdsMutant(rooms) == RoomIds \ DOMAIN rooms

\* the identifiers ''.join(random.choices('0123456789', k=6)) can return
TcpNewRoomIds(rooms) == RoomIds

\* the writers of room rid (ROOMS[rid])
Writers(rid) == tcpLists[tcpROOMS[rid]]

\* lines 42-45, from one suspension to the next: skip the sender itself, write
\* the line to the next writer of the snapshot and await its drain(); the head
\* of tSnap is the writer whose drain() is awaited
SkipNobodyMutant(p, snap) == snap

RECURSIVE SkipSelf(_, _)
SkipSelf(p, snap) ==
    IF snap # <<>> /\ Head(snap) = p THEN SkipSelf(p, Tail(snap)) ELSE snap

RelayOn(p, snap, line) ==
    LET todo == SkipSelf(p, snap)
    IN  /\ tSnap' = [tSnap EXCEPT ![p] = todo]
        /\ tLine' = [tLine EXCEPT ![p] = IF todo = <<>> THEN NoLine ELSE line]
        /\ tPc' = [tPc EXCEPT ![p] = IF todo = <<>> THEN "loop" ELSE "relay"]
        /\ tReceived' = IF todo # <<>> /\ tAlive[Head(todo)]
                        THEN [tReceived EXCEPT ![Head(todo)] = Append(@, line)]
                        ELSE tReceived

\* lines 46-52, up to `await writer.wait_closed()`
Cleanup(p) ==
    LET part == IF tRoom[p] \in DOMAIN tcpROOMS THEN tcpROOMS[tRoom[p]] ELSE 0
    IN  /\ tPart' = [tPart EXCEPT ![p] = part]
        /\ tcpLists' = IF part # 0
                       THEN [tcpLists EXCEPT ![part] = Remove(@, p)]
                       ELSE tcpLists
        /\ tAlive' = [tAlive EXCEPT ![p] = FALSE]
        /\ tPc' = [tPc EXCEPT ![p] = "closing"]
        /\ tSnap' = [tSnap EXCEPT ![p] = <<>>]
        /\ tLine' = [tLine EXCEPT ![p] = NoLine]
        /\ tReceived' = [tReceived EXCEPT ![p] = <<>>]

\* lines 15-21: {'action': 'create'}
tcp_create(p, rid) ==
    /\ tPc[p] = "idle"
    /\ ntcreated < MaxTcpCreates
    /\ ntcreated' = ntcreated + 1
    /\ tcpLists' = Append(tcpLists, <<p>>)
    /\ tcpROOMS' = DictSet(tcpROOMS, rid, Len(tcpLists) + 1)
    /\ tRoom' = [tRoom EXCEPT ![p] = rid]
    /\ tReply' = [tReply EXCEPT ![p] = "ok"]
    /\ tAlive' = [tAlive EXCEPT ![p] = TRUE]
    /\ tPc' = [tPc EXCEPT ![p] = "greeting"]
    /\ UNCHANGED <<rsVars, clockVars, tSnap, tLine, tPart, tReceived, nlines>>

\* lines 22-31: {'action': 'join', 'room_id': rid}
tcp_join(p, rid) ==
    /\ tPc[p] = "idle"
    /\ IF rid \notin DOMAIN tcpROOMS
       THEN /\ tReply' = [tReply EXCEPT ![p] = "error"]
            /\ tPc' = [tPc EXCEPT ![p] = "gone"]
            /\ UNCHANGED <<tcpLists, tRoom, tAlive>>
       ELSE /\ tcpLists' = [tcpLists EXCEPT ![tcpROOMS[rid]] = Append(@, p)]
            /\ tRoom' = [tRoom EXCEPT ![p] = rid]
            /\ tReply' = [tReply EXCEPT ![p] = "ok"]
            /\ tAlive' = [tAlive EXCEPT ![p] = TRUE]
            /\ tPc' = [tPc EXCEPT ![p] = "greeting"]
    /\ UNCHANGED <<rsVars, clockVars, tcpROOMS, tSnap, tLine, tPart, tReceived, nlines, ntcreated>>

\* lines 20 and 30: `await writer.drain()` after the reply, outside the try
\* block: when the connection is lost it raises and handle_client ends there
tcp_greeted(p) ==
    /\ tPc[p] = "greeting"
    /\ tPc' = [tPc EXCEPT ![p] = IF tAlive[p] THEN "loop" ELSE "gone"]
    /\ UNCHANGED <<rsVars, clockVars, tcpROOMS, tcpLists, tRoom, tSnap, tLine, tPart, tAlive,
                   tReply, tReceived, nlines, ntcreated>>

\* the peer's connection is lost
tcp_lost(p) ==
    /\ tPc[p] \in {"greeting", "loop", "relay"}
    /\ tAlive[p]
    /\ tAlive' = [tAlive EXCEPT ![p] = FALSE]
    /\ UNCHANGED <<rsVars, clockVars, tcpROOMS, tcpLists, tPc, tRoom, tSnap, tLine, tPart, tReply,
                   tReceived, nlines, ntcreated>>

\* lines 38-45: a line arrives; line 42 snapshots the room's writers (KeyError
\* when the room is gone: the finally block runs)
tcp_line(p) ==
    /\ tPc[p] = "loop"
    /\ tAlive[p]
    /\ nlines < MaxLines
    /\ nlines' = nlines + 1
    /\ IF tRoom[p] \in DOMAIN tcpROOMS
       THEN /\ RelayOn(p, Writers(tRoom[p]), [sender |-> p, n |-> nlines + 1])
            /\ UNCHANGED <<tcpLists, tPart, tAlive>>
       ELSE Cleanup(p)
    /\ UNCHANGED <<rsVars, clockVars, tcpROOMS, tRoom, tReply, ntcreated>>

\* line 45: `await w.drain()` returns, or raises when w's connection is lost
tcp_drained(p) ==
    /\ tPc[p] = "relay"
    /\ IF tAlive[Head(tSnap[p])]
       THEN /\ RelayOn(p, Tail(tSnap[p]), tLine[p])
            /\ UNCHANGED <<tcpLists, tPart, tAlive>>
       ELSE Cleanup(p)
    /\ UNCHANGED <<rsVars, clockVars, tcpROOMS, tRoom, tReply, nlines, ntcreated>>

\* lines 39-40: readline() returns b'' (or raises): the peer is gone
tcp_eof(p) ==
    /\ tPc[p] = "loop"
    /\ Cleanup(p)
    /\ UNCHANGED <<rsVars, clockVars, tcpROOMS, tRoom, tReply, nlines, ntcreated>>

PopAlwaysMutant(part) == TRUE

\* line 53: `not participants`
NoParticipants(part) == part = 0 \/ tcpLists[part] = <<>>

\* lines 52-55: wait_closed() returns
tcp_closed(p) ==
    /\ tPc[p] = "closing"
    /\ tPc' = [tPc EXCEPT ![p] = "gone"]
    /\ tcpROOMS' = IF NoParticipants(tPart[p]) THEN DictPop(tcpROOMS, tRoom[p]) ELSE tcpROOMS
    /\ tPart' = [tPart EXCEPT ![p] = 0]
    /\ UNCHANGED <<rsVars, clockVars, tcpLists, tRoom, tSnap, tLine, tAlive, tReply, tReceived,
                   nlines, ntcreated>>

\* the connections that come and go
RelayPeers == {"p1", "p2", "p3"}

NextTcp ==
    \/ \E p \in RelayPeers, rid \in TcpNewRoomIds(tcpROOMS) : tcp_create(p, rid)
    \/ \E p \in RelayPeers, rid \in RoomIds : tcp_join(p, rid)
    \/ \E p \in RelayPeers : tcp_greeted(p)
    \/ \E p \in RelayPeers : tcp_lost(p)
    \/ \E p \in RelayPeers : tcp_line(p)
    \/ \E p \in RelayPeers : tcp_drained(p)
    \/ \E p \in RelayPeers : tcp_eof(p)
    \/ \E p \in RelayPeers : tcp_closed(p)

SpecTcp == Init /\ [][NextTcp]_vars


(***************************************************************************)
(*                              The claims                                 *)
(***************************************************************************)
IsPrefix(s, t) == Len(s) <= Len(t) /\ SubSeq(t, 1, Len(s)) = s

\* The variants the history is to hold: every one but typing and presence-count.
Eligible(m) == m.type \notin {"typing", "client_count"}

\* What line 115 lets into the history.
NotTyping(m) == m.type # "typing"

(* C1: after any sequence of publishes to a room, its history holds at most
   MAX_HISTORY (50) messages, and they are exactly the most recent
   history-eligible messages accepted for that room, in the order they were
   accepted. *)
C1_HistoryIsRecentEligible ==
    \A r \in DOMAIN ROOMS :
        /\ Len(ROOMS[r].messages) <= MAX_HISTORY
        /\ ROOMS[r].messages = LastN(SelectSeq(accepted[r], Eligible), MAX_HISTORY)

\* What the code does keep: the last 50 accepted messages that are not typing.
C1_HistoryIsRecentNotTyping ==
    \A r \in DOMAIN ROOMS :
        /\ Len(ROOMS[r].messages) <= MAX_HISTORY
        /\ ROOMS[r].messages = LastN(SelectSeq(accepted[r], NotTyping), MAX_HISTORY)


(* C2: a newly joined subscriber receives the full history the room had when
   it joined, in original order, before it receives anything else, for every
   interleaving of its registration and replay with publishes on the room:
   what it has been sent and that history are always one a prefix of the
   other. *)
C2_HistoryBeforeLive ==
    \A q \in Queues :
        ssePc[q] \in {"replay", "drain"} =>
            \/ IsPrefix(received[q], joinHist[q])
            \/ IsPrefix(joinHist[q], received[q])


\* No connection has been sent a message of its own, on any of the three paths.
NoSelfEcho ==
    /\ \A q \in Queues : \A i \in DOMAIN received[q] :
           Get(received[q][i], "client_id") # q
    /\ \A w \in Sockets : \A i \in DOMAIN wsReceived[w] :
           wsReceived[w][i].sender # w
    /\ \A p \in Peers : \A i \in DOMAIN tReceived[p] :
           tReceived[p][i].sender # p

\* A message accepted by /send is put into the mailbox of every other
\* subscriber of its room.
OthersReceive ==
    \A r \in DOMAIN ROOMS :
        (r \in DOMAIN ROOMS' /\ Len(accepted'[r]) = Len(accepted[r]) + 1) =>
            LET msg == accepted'[r][Len(accepted'[r])]
            IN  \A i \in DOMAIN ROOMS[r].clients :
                    LET h == ROOMS[r].clients[i]
                    IN  h # msg.client_id =>
                            /\ h \in Queues
                            /\ queue'[h] = Append(queue[h], msg)

(* C3: self-echo suppression: the sender of a message never receives its own
   message, on any delivery path (SSE mailbox drain, TCP line relay, binary
   websocket relay), while every other subscriber of the room does. *)
C3_NoSelfEchoOthersReceive == []NoSelfEcho /\ [][OthersReceive]_vars


\* TCP relay: when the drain() of one writer fails, the relay loop goes on with
\* the other writers, only the failed writer leaves the room, and the sender
\* stays connected.
TcpIsolation ==
    \A p \in Peers :
        (tPc[p] = "relay" /\ ~tAlive[Head(tSnap[p])] /\ tcp_drained(p)) =>
            LET h == Head(tSnap[p])
                rid == tRoom[p]
            IN  /\ tPc'[p] \in {"relay", "loop"}
                /\ tSnap'[p] = SkipSelf(p, Tail(tSnap[p]))
                /\ rid \in DOMAIN tcpROOMS /\ rid \in DOMAIN tcpROOMS'
                /\ tcpLists'[tcpROOMS'[rid]] = Remove(Writers(rid), h)

\* Websocket relay: when send_json to one client fails, broadcast() goes on with
\* the other clients and only the failed client leaves the room.
WsIsolation ==
    \A w \in Sockets :
        (wsPc[w] = "bcast" /\ SendFails(Head(wsSnap[w])) /\ ws_send(w)) =>
            LET h == Head(wsSnap[w])
                rid == wsRoom[w]
            IN  /\ wsPc'[w] = IF Tail(wsSnap[w]) = <<>>
                              THEN AfterBroadcast(wsPayload[w].meta.event)
                              ELSE "bcast"
                /\ rid \in DOMAIN ROOMS /\ rid \in DOMAIN ROOMS'
                /\ h \in Range(ROOMS[rid].clients)
                /\ ROOMS'[rid].clients = Remove(ROOMS[rid].clients, h)

\* /send: a message accepted for a room reaches every mailbox of the room.
SendIsolation ==
    \A r \in DOMAIN ROOMS :
        (r \in DOMAIN ROOMS' /\ Len(accepted'[r]) = Len(accepted[r]) + 1) =>
            \A i \in DOMAIN ROOMS[r].clients :
                LET h == ROOMS[r].clients[i]
                IN  h \in Queues =>
                        queue'[h] = Append(queue[h], accepted'[r][Len(accepted'[r])])

(* C4: partial-failure isolation: when delivery to one subscriber of a room
   fails during a publish, the message is still delivered to every other
   subscriber, the failed subscriber and only it is removed from the room's
   subscriber set, the publish is not aborted and the publisher is not
   disconnected. *)
C4_PartialFailureIsolation == [][TcpIsolation /\ WsIsolation /\ SendIsolation]_vars


\* rs.py: a room with clients stays in ROOMS, and POST /create leaves it as it is.
RoomKept ==
    \A r \in DOMAIN ROOMS :
        ROOMS[r].clients # <<>> =>
            /\ r \in DOMAIN ROOMS'
            /\ ncreated' = ncreated + 1 => ROOMS'[r] = ROOMS[r]

\* relay_server.py: a room with writers stays in ROOMS, bound to the same list.
TcpRoomKept ==
    \A r \in DOMAIN tcpROOMS :
        Writers(r) # <<>> =>
            /\ r \in DOMAIN tcpROOMS'
            /\ tcpROOMS'[r] = tcpROOMS[r]

(* C5: a room is never removed from, or replaced in, the registry while its
   subscriber set is non-empty, for every interleaving of join, leave, create
   and sweep. *)
C5_NonEmptyRoomKept == [][RoomKept /\ TcpRoomKept]_vars

\* POST /create adds one room and leaves every existing room as it is.
CreateIsFresh ==
    ncreated' = ncreated + 1 =>
        /\ Cardinality(DOMAIN ROOMS') = Cardinality(DOMAIN ROOMS) + 1
        /\ \A r \in DOMAIN ROOMS : r \in DOMAIN ROOMS' /\ ROOMS'[r] = ROOMS[r]

\* The relay's 'create' adds one room and leaves every existing room as it is.
TcpCreateIsFresh ==
    ntcreated' = ntcreated + 1 =>
        /\ Cardinality(DOMAIN tcpROOMS') = Cardinality(DOMAIN tcpROOMS) + 1
        /\ \A r \in DOMAIN tcpROOMS : r \in DOMAIN tcpROOMS' /\ tcpROOMS'[r] = tcpROOMS[r]

(* C6: creating a room always returns an identifier distinct from the
   identifier of every live room, so a creation never overwrites or discards
   the subscribers, history or transfers of an existing room. *)
C6_CreateReturnsFreshId == [][CreateIsFresh /\ TcpCreateIsFresh]_vars


\* The accepted messages about file f that open or close a transfer.
Markers == {"file", "file-end", "file-cancel"}

\* The position in s[1..i] of the last file-start, file-end or file-cancel of
\* f, or 0.
LastMarker(s, f, i) ==
    LET js == {j \in 1..i : s[j].filename = f /\ s[j].type \in Markers}
    IN  IF js = {} THEN 0 ELSE CHOOSE j \in js : \A k \in js : k <= j

\* The number of raw bytes that a valid base64 payload encodes.
RawLen(d) == CHOOSE n \in ChunkLens : B64Encode(n) = d

\* The raw bytes of the chunks of f in s[a..b].
RECURSIVE SumChunks(_, _, _, _)
SumChunks(s, f, a, b) ==
    IF b < a THEN 0
    ELSE SumChunks(s, f, a, b - 1)
         + (IF s[b].type = "file-chunk" /\ s[b].filename = f THEN RawLen(s[b].data) ELSE 0)

\* Every relayed chunk of a transfer in flight carries the number of raw bytes
\* of the chunks of that file since its file-start.
RunningTotals ==
    \A r \in DOMAIN ROOMS : \A i \in DOMAIN accepted[r] :
        LET m == accepted[r][i]
            j == LastMarker(accepted[r], m.filename, i)
        IN  (m.type = "file-chunk" /\ j # 0 /\ accepted[r][j].type = "file") =>
                m.current_size = SumChunks(accepted[r], m.filename, j, i)

\* A file whose last marker is file-end or file-cancel is listed to nobody.
EndedNotListed ==
    \A r \in DOMAIN ROOMS : \A f \in Filenames :
        LET j == LastMarker(accepted[r], f, Len(accepted[r]))
        IN  (j # 0 /\ accepted[r][j].type \in {"file-end", "file-cancel"}) =>
                \A c \in FileSenders :
                    f \notin DOMAIN OngoingTransfers(ROOMS[r].file_progress, c)

(* C7: for a sequence file-start(f), file-chunk(f, b1), file-chunk(f, b2)
   published to a room, the running totals annotated on the relayed chunks are
   len(b1) and then len(b1)+len(b2); after file-end(f) or file-cancel(f) the
   query of the transfers in flight for that room no longer lists f. *)
C7_RunningTotals == RunningTotals /\ EndedNotListed

\* file-start, a chunk of 1 byte, a chunk of 2 bytes and file-end were relayed
\* with the totals 1 and 3, and the sender's query lists nothing.
C7_Witness ==
    \E r \in DOMAIN ROOMS :
        /\ Len(accepted[r]) = 4
        /\ accepted[r][1].type = "file"
        /\ accepted[r][2].type = "file-chunk" /\ accepted[r][2].data = B64Encode(1)
        /\ accepted[r][2].current_size = 1
        /\ accepted[r][3].type = "file-chunk" /\ accepted[r][3].data = B64Encode(2)
        /\ accepted[r][3].current_size = 3
        /\ accepted[r][4].type = "file-end"
        /\ ROOMS[r].file_progress = EmptyDict
        /\ transfers.client_id = accepted[r][1].client_id
        /\ transfers.ongoing_transfers = EmptyDict

\* GET /stream for an unknown room answers 404 and registers nothing.
SseJoinUnknown ==
    \A r \in RoomIds : \A q \in Queues :
        (r \notin DOMAIN ROOMS /\ stream(r, q)) =>
            resp' = 404 /\ ROOMS' = ROOMS /\ queue' = queue

\* The relay's 'join' for an unknown room answers with an error and registers
\* nothing.
TcpJoinUnknown ==
    \A r \in RoomIds : \A p \in Peers :
        (r \notin DOMAIN tcpROOMS /\ tcp_join(p, r)) =>
            tReply'[p] = "error" /\ tcpROOMS' = tcpROOMS /\ tcpLists' = tcpLists

\* A websocket attaching to an unknown room registers nothing.
WsJoinUnknown ==
    \A r \in RoomIds : \A w \in Sockets :
        (r \notin DOMAIN ROOMS /\ ws_connect(w, r)) => ROOMS' = ROOMS

\* POST /send and POST /typing for an unknown room answer 404 and change
\* nothing.
PublishUnknown ==
    \A r \in RoomIds :
        (r \notin DOMAIN ROOMS
         /\ (\E m \in ChatInputs \cup FileInputs \cup TypingInputs :
                send_message(r, m) \/ send_typing(r, m))) =>
            /\ resp' = 404
            /\ ROOMS' = ROOMS /\ queue' = queue /\ transfers' = transfers

\* The joins of GET /stream and of the relay, and the publishes.
C8_CitedPathsNotFound == [][SseJoinUnknown /\ TcpJoinUnknown /\ PublishUnknown]_vars

(* C8: a join on an unknown room id returns NotFound and registers no
   subscriber; a publish on an unknown room id returns NotFound and leaves the
   registry, every history, every transfer table and every mailbox unchanged. *)
C8_UnknownRoomNotFound ==
    [][SseJoinUnknown /\ TcpJoinUnknown /\ WsJoinUnknown /\ PublishUnknown]_vars

(* C9: typing and presence-count messages never appear in any room's history,
   whatever sequence of publish, typing, join and leave operations is
   performed. *)
C9_NoTypingNoCountInHistory ==
    \A r \in DOMAIN ROOMS : \A i \in DOMAIN ROOMS[r].messages :
        ROOMS[r].messages[i].type \notin {"typing", "client_count"}

\* The clients of room r in the registry rooms, none when there is no such room.
ClientsOf(rooms, r) == IF r \in DOMAIN rooms THEN rooms[r].clients ELSE <<>>

\* Subscriber h is handed the presence count n in this step.
Notified(h, n) ==
    IF h \in Queues
    THEN queue'[h] = Append(queue[h], client_count_msg(n))
    ELSE /\ wsReceived'[h] # <<>>
         /\ wsReceived'[h][Len(wsReceived'[h])] = client_count_msg(n)

\* A step that changes the clients of a room (other than POST /create, which
\* makes a new room) adds or removes one client, and every client then in the
\* room is handed the new count.
MembershipStep ==
    \A r \in RoomIds :
        LET old == ClientsOf(ROOMS, r)
            new == ClientsOf(ROOMS', r)
        IN  (new # old /\ ncreated' = ncreated) =>
                /\ \E h \in Queues \cup Sockets :
                      \/ h \notin Range(old) /\ new = Append(old, h)
                      \/ h \in Range(old) /\ new = Remove(old, h)
                /\ \A i \in DOMAIN new : Notified(new[i], Len(new))

(* C10: every membership change of a room (a subscriber joining,
   disconnecting, or being removed after a delivery failure) adds or removes
   exactly that subscriber and causes a presence-count message to be enqueued
   to all subscribers then in the room, the joiner included, whose count is the
   size of the subscriber set after the change. *)
C10_MembershipChangeCounted == [][MembershipStep]_vars


(***************************************************************************)
(* The reaper next to the SSE connections: cleanup_rooms is a task that    *)
(* sleeps CLEANUP_INTERVAL seconds and sweeps, for ever (rs.py 200-210);   *)
(* asyncio resumes it after every sleep, so a sweep that would delete a    *)
(* room is not postponed for ever.                                         *)
(***************************************************************************)
NextReaper ==
    \/ \E rid \in NewRoomIds(ROOMS) : ncreated < ReaperMaxCreates /\ create_room(rid)
    \/ \E rid \in RoomIds : nsent < ReaperMaxSends /\ send_message(rid, ChatMsg)
    \/ \E rid \in RoomIds, q \in Queues : stream(rid, q)
    \/ \E q \in Queues : gen_start(q)
    \/ \E q \in Queues : gen_replay(q)
    \/ \E q \in Queues : gen_drain(q)
    \/ \E q \in Queues : gen_cancel(q)
    \/ cleanup_rooms

SpecReaper == Init /\ [][NextReaper]_vars /\ WF_vars(cleanup_rooms)

(* C11: under fairness of the reaper task, a room whose subscriber set is
   empty and stays empty is eventually deleted from the registry. *)
C11_EmptyRoomEventuallyDeleted ==
    \A r \in RoomIds :
        (r \in DOMAIN ROOMS /\ ROOMS[r].clients = <<>>)
            ~> (r \notin DOMAIN ROOMS \/ ROOMS[r].clients # <<>>)

\* Rooms were created and the registry is empty again: a sweep deleted them.
C11_Witness == ncreated >= 1 /\ ROOMS = EmptyDict


\* A query of room r by sender c answers with the entries of r's tracker that
\* c started, each with its current size, and leaves the registry as it is.
QueryStep ==
    \A r \in DOMAIN ROOMS : \A c \in FileSenders :
        get_file_progress(r, c) =>
            LET fp == ROOMS[r].file_progress
                answer == transfers'.ongoing_transfers
            IN  /\ resp' = 200
                /\ DOMAIN answer = {f \in DOMAIN fp : fp[f].sender_id = c}
                /\ \A f \in DOMAIN answer : answer[f] = fp[f].current_size
                /\ ROOMS' = ROOMS

(* C12: the query of the transfers in flight of a room by a sender returns
   exactly the in-flight entries of that room whose recorded sender id equals
   the caller's id, with their current byte counts; it never returns an entry
   recorded for a different sender and does not modify the tracker. *)
C12_QueryOwnTransfers == [][QueryStep]_vars

\* Sender q2 was answered with nothing while the tracker holds 3 bytes of a file
\* that q1 started.
C12_Witness ==
    /\ "r1" \in DOMAIN ROOMS
    /\ "f" \in DOMAIN ROOMS["r1"].file_progress
    /\ ROOMS["r1"].file_progress["f"] = [current_size |-> 3, sender_id |-> "q1"]
    /\ Len(accepted["r1"]) = FileMaxSends
    /\ transfers = [client_id |-> "q2", ongoing_transfers |-> EmptyDict]


\* A room id enters the registry of rs.py only in a POST /create step.
RoomsOnlyCreated ==
    \A r \in RoomIds :
        (r \notin DOMAIN ROOMS /\ r \in DOMAIN ROOMS') => ncreated' = ncreated + 1

\* A room id enters the registry of the relay only in a 'create' step.
TcpRoomsOnlyCreated ==
    \A r \in RoomIds :
        (r \notin DOMAIN tcpROOMS /\ r \in DOMAIN tcpROOMS') => ntcreated' = ntcreated + 1

(* C13: a room comes into existence only through an explicit create request:
   no join or attach operation on any path (SSE stream, TCP join, binary
   websocket relay) ever adds a new room id to the registry. *)
C13_RoomsOnlyCreated == [][RoomsOnlyCreated /\ TcpRoomsOnlyCreated]_vars


\* The reaper on its clock, next to room creations and one SSE connection.
NextTimed ==
    \/ \E rid \in NewRoomIds(ROOMS) : ncreated < TimedMaxCreates /\ create_room(rid)
    \/ \E rid \in RoomIds : stream(rid, "q1")
    \/ gen_start("q1")
    \/ gen_replay("q1")
    \/ gen_cancel("q1")
    \/ cleanup_sleep
    \/ cleanup_wake

SpecTimed == Init /\ [][NextTimed]_vars

\* A room leaves the registry only after CLEANUP_INTERVAL seconds without clients.
DeletedAfterInterval ==
    \A r \in RoomIds :
        (r \in DOMAIN ROOMS /\ r \notin DOMAIN ROOMS') => idle[r] >= CLEANUP_INTERVAL

(* C14: the idle reaper deletes a room only once its subscriber set has been
   continuously empty for at least one full sweep interval; a room that was
   created, or became empty, less than one interval before a sweep is not
   deleted by that sweep. *)
C14_DeletedAfterFullInterval == [][DeletedAfterInterval]_vars


(***************************************************************************)
(* The relay with a peer that stops reading. asyncio resumes a handler     *)
(* when the drain() it awaits is over, and a drain() on a connection whose *)
(* peer reads (or is gone) does come to its end; the drain() on the        *)
(* connection of a peer that has stopped reading need not.                 *)
(***************************************************************************)
StalledPeer == "p2"

DrainOver(p) ==
    /\ tPc[p] = "relay"
    /\ Head(tSnap[p]) # StalledPeer
    /\ tcp_drained(p)

SpecTcpStall == Init /\ [][NextTcp]_vars /\ \A p \in Peers : WF_vars(DrainOver(p))

\* A relay loop that was started comes to its end with the sender's handler
\* back at readline().
RelayEnds == \A p \in Peers : (tPc[p] = "relay") ~> (tPc[p] = "loop")

\* A broadcast() that was started comes to its end.
BroadcastEnds == \A w \in Sockets : (wsPc[w] = "bcast") ~> (wsPc[w] # "bcast")

(* C15: a stalled or disconnected subscriber never blocks or aborts fan-out:
   every publish to a room terminates, and its message reaches every other
   live subscriber of the room, even if one subscriber never drains its
   mailbox or connection. *)
C15_FanOutNeverBlocked == RelayEnds /\ BroadcastEnds


\* The file-chunk requests for a file that room r does not track.
OrphanChunks(r) ==
    {m \in FileInputs : m.type = "file-chunk" /\ m.filename \notin DOMAIN ROOMS[r].file_progress}

\* POST /send of chunk m to room r answers 200, relays m as it came to every
\* mailbox of the room and leaves the tracker as it is.
RelayedUnannotated(r, m) ==
    LET msg_dict == [m EXCEPT !.n = nsent + 1]
    IN  /\ resp' = 200
        /\ msg_dict.current_size = NoSize
        /\ accepted'[r] = Append(accepted[r], msg_dict)
        /\ \A i \in DOMAIN ROOMS[r].clients :
              LET h == ROOMS[r].clients[i]
              IN  h \in Queues /\ queue'[h] = Append(queue[h], msg_dict)
        /\ ROOMS'[r].file_progress = ROOMS[r].file_progress

OrphanChunkStep ==
    \A r \in DOMAIN ROOMS : \A m \in OrphanChunks(r) :
        send_message(r, m) => RelayedUnannotated(r, m)

\* The same for the chunks whose data is correctly padded base64.
OrphanValidChunkStep ==
    \A r \in DOMAIN ROOMS : \A m \in OrphanChunks(r) :
        (B64Valid(m.data) /\ send_message(r, m)) => RelayedUnannotated(r, m)

C16_ValidOrphanChunkRelayed == [][OrphanValidChunkStep]_vars

(* C16: a file-chunk for a filename that has no tracker entry (no prior
   file-start, or after file-end or file-cancel) is still accepted and relayed
   to subscribers, carries no running-total annotation, and leaves the transfer
   table unchanged: it does not create an entry. *)
C16_OrphanChunkRelayed == [][OrphanChunkStep]_vars


\* The size recorded for file f in room r does not go down in a step that
\* leaves the entry in the tracker.
SizeKept(r, f) ==
    ROOMS'[r].file_progress[f].current_size >= ROOMS[r].file_progress[f].current_size

\* The step is the acceptance of a file-start for f in room r, which sets the
\* recorded size to 0.
Restarted(r, f) ==
    /\ Len(accepted'[r]) = Len(accepted[r]) + 1
    /\ accepted'[r][Len(accepted'[r])].type = "file"
    /\ accepted'[r][Len(accepted'[r])].filename = f
    /\ ROOMS'[r].file_progress[f].current_size = 0

\* The original statement: no step lowers the size of an entry that stays.
C17_SizeNeverDecreases ==
    [][\A r \in DOMAIN ROOMS : \A f \in DOMAIN ROOMS[r].file_progress :
          (r \in DOMAIN ROOMS' /\ f \in DOMAIN ROOMS'[r].file_progress) => SizeKept(r, f)]_vars

(* C17: for every filename, the bytes received of its tracker entry are
   monotonically non-decreasing for as long as the entry is in flight, under
   any sequence of file-start, file-chunk, file-end and file-cancel messages
   from any senders; amended: except that a file-start for a filename that is
   in flight sets its bytes received back to 0. *)
C17_SizeDecreasesOnlyOnRestart ==
    [][\A r \in DOMAIN ROOMS : \A f \in DOMAIN ROOMS[r].file_progress :
          (r \in DOMAIN ROOMS' /\ f \in DOMAIN ROOMS'[r].file_progress) =>
              SizeKept(r, f) \/ Restarted(r, f)]_vars

\* A transfer with 2 bytes received was started again and has then received
\* 1 byte.
C17_Witness ==
    \E r \in DOMAIN ROOMS :
        /\ Len(accepted[r]) = 4
        /\ accepted[r][1].type = "file"
        /\ accepted[r][2].type = "file-chunk" /\ accepted[r][2].current_size = 2
        /\ accepted[r][3].type = "file"
        /\ accepted[r][4].type = "file-chunk" /\ accepted[r][4].current_size = 1
        /\ "f" \in DOMAIN ROOMS[r].file_progress
        /\ ROOMS[r].file_progress["f"].current_size = 1


\* m is a published message (a presence count is not: it has no request number)
Published(m) == "n" \in DOMAIN m

(* C18: each published message is delivered to a given subscriber at most
   once: a message published concurrently with a join is never seen by the
   joiner both in the replayed history and again as a live message from its
   mailbox. *)
C18_DeliveredAtMostOnce ==
    \A q \in Queues : \A i \in DOMAIN received[q] : \A j \in DOMAIN received[q] :
        (i < j /\ Published(received[q][i]) /\ Published(received[q][j]))
            => received[q][i].n # received[q][j].n


(***************************************************************************)
(* Two senders in a room of four: the state after one 'create' and three   *)
(* 'join' requests have been answered, from which p1 and p2 send lines     *)
(* while any of the four may leave.                                        *)
(***************************************************************************)
Senders == {"p1", "p2"}

InitOrder ==
    /\ ROOMS = EmptyDict
    /\ queue = [q \in Queues |-> <<>>]
    /\ ssePc = [q \in Queues |-> "idle"]
    /\ sseRoom = [q \in Queues |-> None]
    /\ sseIter = [q \in Queues |-> <<>>]
    /\ sseShared = [q \in Queues |-> FALSE]
    /\ wsPc = [w \in Sockets |-> "idle"]
    /\ wsRoom = [w \in Sockets |-> None]
    /\ wsStale = [w \in Sockets |-> FALSE]
    /\ wsAlive = [w \in Sockets |-> FALSE]
    /\ wsSnap = [w \in Sockets |-> <<>>]
    /\ wsPayload = [w \in Sockets |-> None]
    /\ wsFrames = 0
    /\ resp = 0
    /\ transfers = [client_id |-> None, ongoing_transfers |-> EmptyDict]
    /\ nsent = 0
    /\ ncreated = 0
    /\ received = [q \in Queues |-> <<>>]
    /\ wsReceived = [w \in Sockets |-> <<>>]
    /\ accepted = [r \in RoomIds |-> <<>>]
    /\ joinHist = [q \in Queues |-> <<>>]
    /\ slept = 0
    /\ idle = [r \in RoomIds |-> 0]
    /\ tcpROOMS = [r \in {"r1"} |-> 1]
    /\ tcpLists = << <<"p1", "p2", "p3", "p4">> >>
    /\ tPc = [p \in Peers |-> "loop"]
    /\ tRoom = [p \in Peers |-> "r1"]
    /\ tSnap = [p \in Peers |-> <<>>]
    /\ tLine = [p \in Peers |-> NoLine]
    /\ tPart = [p \in Peers |-> 0]
    /\ tAlive = [p \in Peers |-> TRUE]
    /\ tReply = [p \in Peers |-> "ok"]
    /\ tReceived = [p \in Peers |-> <<>>]
    /\ nlines = 0
    /\ ntcreated = 1

NextOrder ==
    \/ \E p \in Senders : tcp_line(p)
    \/ \E p \in Senders : tcp_drained(p)
    \/ \E p \in Peers : tcp_lost(p)
    \/ \E p \in Peers : tcp_eof(p)
    \/ \E p \in Peers : tcp_closed(p)

SpecTcpOrder == InitOrder /\ [][NextOrder]_vars

\* The published messages in a mailbox are in the order of their acceptance,
\* which is the order of the history.
SseOrder ==
    \A q \in Queues : \A i \in DOMAIN queue[q] : \A j \in DOMAIN queue[q] :
        (i < j /\ Published(queue[q][i]) /\ Published(queue[q][j]))
            => queue[q][i].n < queue[q][j].n

\* No two lines were written to two connections in opposite orders.
TcpOrder ==
    \A x \in Peers : \A y \in Peers :
        \A i \in DOMAIN tReceived[x] : \A j \in DOMAIN tReceived[x] :
            \A k \in DOMAIN tReceived[y] : \A l \in DOMAIN tReceived[y] :
                ~(/\ i < j /\ k < l
                  /\ tReceived[x][i] = tReceived[y][l]
                  /\ tReceived[x][j] = tReceived[y][k])

(* C19: fan-out order is consistent within a room: for any two messages
   published to a room and any two subscribers attached during both
   publishes, both subscribers' mailboxes contain the two messages in the same
   relative order, and that order is the order in which they were appended to
   the room's history, under any interleaving of concurrent publishers. *)
C19_FanOutOrderConsistent == SseOrder /\ TcpOrder


\* The position in s of the last file-start, file-end or file-cancel of f that
\* sender c published, or 0.
LastOwnMarker(s, f, c) ==
    LET js == {j \in DOMAIN s : s[j].filename = f /\ s[j].client_id = c
                                 /\ s[j].type \in Markers}
    IN  IF js = {} THEN 0 ELSE CHOOSE j \in js : \A k \in js : k <= j

\* The raw bytes of the chunks of f that sender c published in s[a..b].
RECURSIVE SumOwnChunks(_, _, _, _, _)
SumOwnChunks(s, f, c, a, b) ==
    IF b < a THEN 0
    ELSE SumOwnChunks(s, f, c, a, b - 1)
         + (IF s[b].type = "file-chunk" /\ s[b].filename = f /\ s[b].client_id = c
            THEN RawLen(s[b].data) ELSE 0)

\* Sender c has started f in room r and has not ended or cancelled it since.
OwnInFlight(r, f, c) ==
    LET j == LastOwnMarker(accepted[r], f, c)
    IN  j # 0 /\ accepted[r][j].type = "file"

(* C20: transfer attribution: the byte count that the query of the transfers
   in flight reports to a sender for filename f equals the sum of the decoded
   lengths of the file-chunk messages for f published by that same sender
   since its most recent file-start for f; messages about f from a different
   sender (start, chunk, end, cancel) do not change what the owning sender is
   reported. *)
C20_TransferAttribution ==
    \A r \in DOMAIN ROOMS : \A c \in FileSenders : \A f \in Filenames :
        LET answer == OngoingTransfers(ROOMS[r].file_progress, c)
            j == LastOwnMarker(accepted[r], f, c)
        IN  /\ f \in DOMAIN answer <=> OwnInFlight(r, f, c)
            /\ f \in DOMAIN answer =>
                  answer[f] = SumOwnChunks(accepted[r], f, c, j, Len(accepted[r]))

====
